---- MODULE Spec2Model ----
(***************************************************************************)
(* Model of py/vtdb/keyspace.py: the Keyspace object built from a          *)
(* SrvKeyspace snapshot, its range-sharding resolver and read_keyspace.    *)
(*                                                                         *)
(* A byte string is a sequence of byte values.  The keyspace id is packed  *)
(* big-endian into KeyWidth bytes; the program packs 8 bytes of radix 256  *)
(* (struct '!Q'), the model scales the width down and keeps two byte       *)
(* values, a low one and a high one.                                       *)
(* A shard name is a sequence of one-character strings.                    *)
(***************************************************************************)
EXTENDS Integers, Sequences, FiniteSets, TLC

\* ---- bounds of the model ------------------------------------------------
KeyWidth == 2
MaxShards == 2

Bytes == {0, 1}
Base == Cardinality(Bytes)
ByteMax == CHOOSE b \in Bytes : \A c \in Bytes : c <= b
KeyIds == 0..(Base ^ KeyWidth - 1)
DbTypes == {"master", "replica"}
Names == {"test_keyspace"}

\* ---- keyrange_constants (imported module) -------------------------------
MIN_KEY == << >>
MAX_KEY == [i \in 1..KeyWidth |-> ByteMax]
SHARD_ZERO == <<"0">>

\* ---- Python values ------------------------------------------------------
\* An optional list: None, or a list.
None == [some |-> FALSE, val |-> << >>]
Some(v) == [some |-> TRUE, val |-> v]

\* Truth value of `not x` for x None or a list.
PyNot(x) == ~x.some \/ Len(x.val) = 0

\* str < str: byte-wise lexicographic order, a proper prefix is smaller.
StrLess(a, b) ==
  \E i \in 1..Len(b) :
    /\ i - 1 <= Len(a)
    /\ \A j \in 1..(i - 1) : a[j] = b[j]
    /\ IF i <= Len(a) THEN a[i] < b[i] ELSE TRUE

\* struct.Struct('!Q').pack: fixed width, most significant byte first.
pack_little_endian(keyspace_id) ==
  [i \in 1..KeyWidth |-> (keyspace_id \div (Base ^ (i - 1))) % Base]

pack_keyspace_id(keyspace_id) ==
  [i \in 1..KeyWidth |-> (keyspace_id \div (Base ^ (KeyWidth - i))) % Base]

\* str.encode('hex').upper(): two upper-case hexadecimal digits per byte.
HexDigits == <<"0", "1", "2", "3", "4", "5", "6", "7",
               "8", "9", "a", "b", "c", "d", "e", "f">>

Upper(c) ==
  CASE c = "a" -> "A" [] c = "b" -> "B" [] c = "c" -> "C"
    [] c = "d" -> "D" [] c = "e" -> "E" [] c = "f" -> "F"
    [] OTHER -> c

RECURSIVE HexUpper(_)
HexUpper(s) ==
  IF Len(s) = 0 THEN << >>
  ELSE <<Upper(HexDigits[(Head(s) \div 16) + 1]),
         Upper(HexDigits[(Head(s) % 16) + 1])>> \o HexUpper(Tail(s))

\* str(x) of a non-negative integer: its decimal digits.
RECURSIVE PyStr(_)
PyStr(x) ==
  IF x < 10 THEN <<HexDigits[x + 1]>>
  ELSE PyStr(x \div 10) \o <<HexDigits[(x % 10) + 1]>>

\* '%s-%s' % (min_key.encode('hex').upper(), max_key.encode('hex').upper())
RangeName(min_key, max_key) == HexUpper(min_key) \o <<"-">> \o HexUpper(max_key)

\* The names built by the loop `for i, max_key in enumerate(keys)`.
RangeNames(keys) ==
  [i \in 1..Len(keys) |->
     RangeName(IF i > 1 THEN keys[i - 1] ELSE MIN_KEY, keys[i])]

\* ---- exceptions ---------------------------------------------------------
\* An exception: its class, its first two arguments and, third, its cause.
NoCause == << >>
Exc(type, msg, name, cause) ==
  [type |-> type, msg |-> msg, name |-> name, cause |-> cause]
NoExc == Exc("", "", "", NoCause)
CauseOf(e) == <<e.type, e.msg>>

\* isinstance(e, dbexceptions.OperationalError) / isinstance(e, Exception)
IsOperationalError(e) == e.type = "OperationalError"
IsException(e) == e.type # "KeyboardInterrupt"

\* ---- snapshots ----------------------------------------------------------
\* A shard descriptor; only KeyRange.End is read by the program.
Shard(end) == [End |-> end]

\* Range-ends: empty (unbounded), a one-byte prefix, or a full-width key.
EndLengths == {0, 1, KeyWidth}
ByteStrings == UNION {[1..n -> Bytes] : n \in EndLengths}
ShardLists == UNION {[1..n -> {Shard(e) : e \in ByteStrings}] : n \in 0..MaxShards}

NoPartitions == [t \in {} |-> << >>]
PartitionInputs ==
  { [t \in {"master"} |-> <<Shard(MAX_KEY)>>],
    [t \in {"replica"} |-> <<Shard(<<1>>), Shard(<< >>)>>],
    [t \in DbTypes |-> IF t = "master" THEN << >> ELSE <<Shard(<<0>>)>>] }

\* data: which keys the dict has, and the values the program reads.
Snapshot(hasTypes, hasShards, shards, hasParts, parts) ==
  [hasTabletTypes |-> hasTypes, hasShards |-> hasShards, Shards |-> shards,
   hasPartitions |-> hasParts, Partitions |-> parts]
NoSnapshot == Snapshot(FALSE, FALSE, << >>, FALSE, NoPartitions)

Snapshots ==
  {Snapshot(TRUE, TRUE, s, TRUE, p) : s \in ShardLists, p \in PartitionInputs}
  \cup {Snapshot(TRUE, TRUE, s, FALSE, NoPartitions) : s \in ShardLists}
  \cup {Snapshot(FALSE, TRUE, s, FALSE, NoPartitions) : s \in ShardLists}
  \cup {Snapshot(ht, FALSE, << >>, FALSE, NoPartitions) : ht \in BOOLEAN}

\* ---- class Keyspace -----------------------------------------------------
NoKeyspace ==
  [name |-> "", partitions |-> NoPartitions, shard_count |-> 0,
   shard_max_keys |-> None, shard_names |-> << >>]

\* The range-ends of a shard list: [shard['KeyRange']['End'] for shard in shards]
RangeEnds(shards) == [i \in 1..Len(shards) |-> shards[i].End]

\* Keyspace._make_shard_names
make_shard_names_short(shard_count, shard_max_keys) ==
  IF ~PyNot(shard_max_keys)
  THEN RangeNames(shard_max_keys.val)
  ELSE [x \in 1..(shard_count - 1) |-> PyStr(x - 1)]

make_shard_names(shard_count, shard_max_keys) ==
  IF ~PyNot(shard_max_keys)
  THEN RangeNames(shard_max_keys.val)
  ELSE [x \in 1..shard_count |-> PyStr(x - 1)]

\* The test of line 40 and the list it guards.
shard_max_keys_by_last_shard(shards) ==
  IF Len(shards) > 1 /\ shards[Len(shards)].End # << >>
  THEN Some(RangeEnds(shards))
  ELSE None

IsBounded(end) == end # << >>
shard_max_keys_filtered(shards) ==
  IF Len(shards) > 1 /\ shards[1].End # << >>
  THEN Some(SelectSeq(RangeEnds(shards), IsBounded))
  ELSE None

init_shard_max_keys(shards) ==
  IF Len(shards) > 1 /\ shards[1].End # << >>
  THEN Some(RangeEnds(shards))
  ELSE None

\* Keyspace.__init__(name, data): the object, or the exception it raises.
KeyspaceInit(name, data) ==
  IF ~data.hasTabletTypes
  THEN [ok |-> FALSE, ks |-> NoKeyspace,
        exc |-> Exc("KeyError", "TabletTypes", "", NoCause)]
  ELSE IF ~data.hasShards
  THEN [ok |-> FALSE, ks |-> NoKeyspace,
        exc |-> Exc("KeyError", "Shards", "", NoCause)]
  ELSE LET shard_count == Len(data.Shards)
           shard_max_keys == init_shard_max_keys(data.Shards)
       IN [ok |-> TRUE,
           ks |-> [name |-> name,
                   partitions |-> IF data.hasPartitions THEN data.Partitions
                                  ELSE NoPartitions,
                   shard_count |-> shard_count,
                   shard_max_keys |-> shard_max_keys,
                   shard_names |-> make_shard_names(shard_count, shard_max_keys)],
           exc |-> NoExc]

\* Keyspace.get_shards
get_shards(self, db_type) ==
  IF db_type \in DOMAIN self.partitions THEN self.partitions[db_type] ELSE << >>

\* Keyspace.get_shard_max_keys
get_shard_max_keys(self, db_type) == RangeEnds(get_shards(self, db_type))

\* The result of a method call: a value of its kind, or an exception.
Returned(index, names) == [exc |-> NoExc, index |-> index, names |-> names]
Raised(e) == [exc |-> e, index |-> -1, names |-> << >>]

\* Keyspace.get_shard_names
get_shard_names(self, db_type) ==
  LET shard_max_keys == get_shard_max_keys(self, db_type)
  IN IF Len(shard_max_keys) = 1 /\ shard_max_keys[1] = MAX_KEY
     THEN Returned(-1, <<SHARD_ZERO>>)
     ELSE IF ~self.shard_max_keys.some
     THEN Raised(Exc("TypeError", "'NoneType' object is not iterable", "", NoCause))
     ELSE Returned(-1, RangeNames(self.shard_max_keys.val))

\* for shard_index, shard_max in enumerate(keys): if pkid < shard_max: break
\* The value of shard_index after the loop, entered at index i (from 0).
RECURSIVE ScanFrom(_, _, _)
ScanFrom(keys, pkid, i) ==
  IF StrLess(pkid, keys[i + 1]) THEN i
  ELSE IF i + 1 = Len(keys) THEN i
  ELSE ScanFrom(keys, pkid, i + 1)

ScanPastEnd(keys, pkid) ==
  IF \E i \in 1..Len(keys) : StrLess(pkid, keys[i])
  THEN ScanFrom(keys, pkid, 0)
  ELSE Len(keys)

RECURSIVE ScanLessEqFrom(_, _, _)
ScanLessEqFrom(keys, pkid, i) ==
  IF StrLess(pkid, keys[i + 1]) \/ pkid = keys[i + 1] THEN i
  ELSE IF i + 1 = Len(keys) THEN i
  ELSE ScanLessEqFrom(keys, pkid, i + 1)

ScanLessEq(keys, pkid) == ScanLessEqFrom(keys, pkid, 0)

Scan(keys, pkid) == ScanFrom(keys, pkid, 0)

NotRangeSharded(self) ==
  Exc("ValueError", "Keyspace is not range sharded", self.name, NoCause)

\* Keyspace.keyspace_id_to_shard_index_for_db_type
keyspace_id_to_shard_index_for_db_type(self, keyspace_id, db_type) ==
  LET pkid == pack_keyspace_id(keyspace_id)
      shard_max_keys == get_shard_max_keys(self, db_type)
  IN IF Len(shard_max_keys) = 0
     THEN Raised(NotRangeSharded(self))
     ELSE Returned(Scan(shard_max_keys, pkid), << >>)

\* Keyspace.keyspace_id_to_shard_index
keyspace_id_to_shard_index_unchecked(self, keyspace_id) ==
  LET pkid == pack_keyspace_id(keyspace_id)
  IN IF PyNot(self.shard_max_keys)
     THEN Returned(0, << >>)
     ELSE Returned(Scan(self.shard_max_keys.val, pkid), << >>)

keyspace_id_to_shard_index(self, keyspace_id) ==
  LET pkid == pack_keyspace_id(keyspace_id)
  IN IF PyNot(self.shard_max_keys)
     THEN Raised(NotRangeSharded(self))
     ELSE Returned(Scan(self.shard_max_keys.val, pkid), << >>)

\* ---- the topology client ------------------------------------------------
\* topo_client.get_srv_keyspace: None, an empty dict, a snapshot, or a raise.
TopoReturn(kind, data) == [kind |-> kind, data |-> data, exc |-> NoExc]
TopoRaise(e) == [kind |-> "raise", data |-> NoSnapshot, exc |-> e]
TopoExceptions ==
  { Exc("OperationalError", "topo rpc failed", "", NoCause),
    Exc("IOError", "connection lost", "", NoCause),
    Exc("KeyboardInterrupt", "", "", NoCause) }
TopoResults ==
  {TopoReturn("None", NoSnapshot), TopoReturn("empty", NoSnapshot)}
  \cup {TopoReturn("data", d) : d \in Snapshots}
  \cup {TopoRaise(e) : e \in TopoExceptions}

\* read_keyspace(topo_client, keyspace_name), given what the client does.
read_keyspace_wrap_all(res, keyspace_name) ==
  LET built == KeyspaceInit(keyspace_name, res.data)
      raised == IF res.kind = "raise" THEN res.exc
                ELSE IF res.kind \in {"None", "empty"}
                THEN Exc("OperationalError", "invalid empty keyspace",
                         keyspace_name, NoCause)
                ELSE built.exc
  IN IF raised = NoExc THEN built
     ELSE [ok |-> FALSE, ks |-> NoKeyspace,
           exc |-> Exc("OperationalError", "invalid keyspace", keyspace_name,
                       CauseOf(raised))]

read_keyspace(res, keyspace_name) ==
  LET built == KeyspaceInit(keyspace_name, res.data)
      raised == IF res.kind = "raise" THEN res.exc
                ELSE IF res.kind \in {"None", "empty"}
                THEN Exc("OperationalError", "invalid empty keyspace",
                         keyspace_name, NoCause)
                ELSE built.exc
  IN IF raised = NoExc THEN built
     ELSE IF IsOperationalError(raised) \/ ~IsException(raised)
     THEN [ok |-> FALSE, ks |-> NoKeyspace, exc |-> raised]
     ELSE [ok |-> FALSE, ks |-> NoKeyspace,
           exc |-> Exc("OperationalError", "invalid keyspace", keyspace_name,
                       CauseOf(raised))]

\* ---- the state machine --------------------------------------------------
VARIABLES pc, keyspace_name, topo, ks, err, call
vars == <<pc, keyspace_name, topo, ks, err, call>>

NoCall ==
  [op |-> "none", keyspace_id |-> 0, db_type |-> "", ret |-> Returned(-1, << >>)]
Call(op, keyspace_id, db_type, ret) ==
  [op |-> op, keyspace_id |-> keyspace_id, db_type |-> db_type, ret |-> ret]

Init ==
  /\ pc = "start"
  /\ keyspace_name = ""
  /\ topo = TopoReturn("None", NoSnapshot)
  /\ ks = NoKeyspace
  /\ err = NoExc
  /\ call = NoCall

\* read_keyspace(topo_client, keyspace_name)
ReadKeyspace ==
  /\ pc = "start"
  /\ \E res \in TopoResults, name \in Names :
       LET out == read_keyspace(res, name)
       IN /\ keyspace_name' = name
          /\ topo' = res
          /\ ks' = out.ks
          /\ err' = out.exc
          /\ pc' = IF out.ok THEN "loaded" ELSE "failed"
  /\ UNCHANGED call

\* keyspace.keyspace_id_to_shard_index(keyspace_id)
KeyspaceIdToShardIndex ==
  /\ pc = "loaded"
  /\ \E keyspace_id \in KeyIds :
       call' = Call("keyspace_id_to_shard_index", keyspace_id, "",
                    keyspace_id_to_shard_index(ks, keyspace_id))
  /\ UNCHANGED <<pc, keyspace_name, topo, ks, err>>

\* keyspace.keyspace_id_to_shard_index_for_db_type(keyspace_id, db_type)
KeyspaceIdToShardIndexForDbType ==
  /\ pc = "loaded"
  /\ \E keyspace_id \in KeyIds, db_type \in DbTypes :
       call' = Call("keyspace_id_to_shard_index_for_db_type", keyspace_id, db_type,
                    keyspace_id_to_shard_index_for_db_type(ks, keyspace_id, db_type))
  /\ UNCHANGED <<pc, keyspace_name, topo, ks, err>>

\* keyspace.get_shard_names(db_type)
GetShardNames ==
  /\ pc = "loaded"
  /\ \E db_type \in DbTypes :
       call' = Call("get_shard_names", 0, db_type, get_shard_names(ks, db_type))
  /\ UNCHANGED <<pc, keyspace_name, topo, ks, err>>

Next ==
  \/ ReadKeyspace
  \/ KeyspaceIdToShardIndex
  \/ KeyspaceIdToShardIndexForDbType
  \/ GetShardNames

Spec == Init /\ [][Next]_vars

\* ---- properties ---------------------------------------------------------
Loaded == pc = "loaded"
RangeSharded == Loaded /\ ks.shard_max_keys.some
MaxKeys == ks.shard_max_keys.val
Resolved == call.op = "keyspace_id_to_shard_index"
ResolvedForType == call.op = "keyspace_id_to_shard_index_for_db_type"
Pkid == pack_keyspace_id(call.keyspace_id)
NotRangeShardedError ==
  [type |-> "ValueError", msg |-> "Keyspace is not range sharded",
   name |-> keyspace_name, cause |-> << >>]

\* The packed key of the call is greater than or equal to every boundary.
FallsThrough == \A i \in 1..Len(MaxKeys) : ~StrLess(Pkid, MaxKeys[i])
\* keys[1..n] is strictly ascending / keys is ascending.
StrictlyAscendingUpTo(keys, n) == \A i \in 1..(n - 1) : StrLess(keys[i], keys[i + 1])
Ascending(keys) == \A i \in 1..(Len(keys) - 1) : ~StrLess(keys[i + 1], keys[i])

\* C1: on a Keyspace whose shard_max_keys is present, keyspace_id_to_shard_index
\* returns, for every keyspace id, an index i with 0 <= i < shard_count, and
\* when the packed key is >= every boundary the index is shard_count - 1.
C1_IndexInRange ==
  (Resolved /\ RangeSharded) =>
    /\ call.ret.exc = NoExc
    /\ call.ret.index >= 0
    /\ call.ret.index < ks.shard_count
    /\ FallsThrough => call.ret.index = ks.shard_count - 1

C1_Witness ==
  /\ Resolved /\ RangeSharded /\ FallsThrough
  /\ call.ret.index = ks.shard_count - 1

\* C2: with ascending shard_max_keys, k1 < k2 implies that the shard index of
\* k1 is at most the shard index of k2.
C2_Monotonic ==
  (RangeSharded /\ Ascending(MaxKeys)) =>
    \A k1 \in KeyIds, k2 \in KeyIds :
      k1 < k2 => keyspace_id_to_shard_index(ks, k1).index
                   <= keyspace_id_to_shard_index(ks, k2).index

C2_Witness ==
  /\ Resolved /\ RangeSharded /\ Ascending(MaxKeys)
  /\ \E k1 \in KeyIds :
       /\ k1 < call.keyspace_id
       /\ keyspace_id_to_shard_index(ks, k1).index < call.ret.index

\* C3 as stated: a keyspace id whose packed form equals shard_max_keys[i]
\* resolves to shard i+1, for every index i (the sequence is 1-based here, so
\* entry i is shard i-1 and the claimed result is i).
C3_BoundaryExact_AsStated ==
  (Resolved /\ RangeSharded) =>
    \A i \in 1..Len(MaxKeys) : Pkid = MaxKeys[i] => call.ret.index = i

\* C3 amended: a keyspace id whose packed form equals the boundary of shard s
\* never resolves to s unless s is the last shard; it resolves to s+1 when s is
\* not the last shard and the boundaries up to s+1 are strictly ascending; and
\* for the last shard, when no boundary is greater, it resolves to the last
\* shard itself.
C3_BoundaryExact ==
  (Resolved /\ RangeSharded) =>
    \A i \in 1..Len(MaxKeys) :
      Pkid = MaxKeys[i] =>
        /\ i < Len(MaxKeys) => call.ret.index # i - 1
        /\ (i < Len(MaxKeys) /\ StrictlyAscendingUpTo(MaxKeys, i + 1))
             => call.ret.index = i
        /\ (i = Len(MaxKeys) /\ FallsThrough) => call.ret.index = i - 1

C3_Witness ==
  /\ Resolved /\ RangeSharded
  /\ \E i \in 1..(Len(MaxKeys) - 1) :
       /\ Pkid = MaxKeys[i]
       /\ StrictlyAscendingUpTo(MaxKeys, i + 1)
       /\ call.ret.index = i

\* C4: keyspace_id_to_shard_index raises 'Keyspace is not range sharded' with
\* the keyspace name whenever shard_max_keys is absent, and
\* keyspace_id_to_shard_index_for_db_type raises the same error whenever the
\* db_type is not a key of partitions; neither returns an index.
C4_NotRangeSharded ==
  /\ (Resolved /\ ~ks.shard_max_keys.some) =>
       call.ret.exc = NotRangeShardedError /\ call.ret.index = -1
  /\ (ResolvedForType /\ call.db_type \notin DOMAIN ks.partitions) =>
       call.ret.exc = NotRangeShardedError /\ call.ret.index = -1

C4_Witness ==
  /\ ResolvedForType /\ call.db_type \notin DOMAIN ks.partitions
  /\ RangeSharded /\ DOMAIN ks.partitions # {}
  /\ call.ret.exc = NotRangeShardedError

\* What read_keyspace's caller sees, by what the topology client did.
Fetched == pc # "start"
EmptyResult == topo.kind \in {"None", "empty"}
MalformedSnapshot ==
  topo.kind = "data" /\ (~topo.data.hasTabletTypes \/ ~topo.data.hasShards)
ConstructionError ==
  [type |-> "KeyError",
   msg |-> IF ~topo.data.hasTabletTypes THEN "TabletTypes" ELSE "Shards",
   name |-> "", cause |-> << >>]
Underlying == IF topo.kind = "raise" THEN topo.exc ELSE ConstructionError
EmptyKeyspaceError ==
  [type |-> "OperationalError", msg |-> "invalid empty keyspace",
   name |-> keyspace_name, cause |-> << >>]
InvalidKeyspaceError ==
  [type |-> "OperationalError", msg |-> "invalid keyspace",
   name |-> keyspace_name, cause |-> <<Underlying.type, Underlying.msg>>]

PassesThrough ==
  topo.kind = "raise"
  /\ (topo.exc.type = "OperationalError" \/ topo.exc.type = "KeyboardInterrupt")
PartitionEnds ==
  IF call.db_type \in DOMAIN ks.partitions
  THEN [i \in 1..Len(ks.partitions[call.db_type]) |->
          ks.partitions[call.db_type][i].End]
  ELSE << >>
C6_ShardNamesFromOwnPartition ==
  call.op = "get_shard_names" =>
    /\ call.ret.exc = NoExc
    /\ Len(call.ret.names) = Len(PartitionEnds)
    /\ IF Len(PartitionEnds) = 1 /\ PartitionEnds[1] = MAX_KEY
       THEN call.ret.names = <<SHARD_ZERO>>
       ELSE \A i \in 1..Len(PartitionEnds) :
              call.ret.names[i] =
                RangeName(IF i = 1 THEN MIN_KEY ELSE PartitionEnds[i - 1],
                          PartitionEnds[i])

\* C7: whenever shard_max_keys is present it has shard_count entries and is
\* strictly ascending in byte-lexicographic order.
C7_StrictlyAscending ==
  RangeSharded =>
    /\ Len(MaxKeys) = ks.shard_count
    /\ StrictlyAscendingUpTo(MaxKeys, Len(MaxKeys))

\* C8: shard_names has shard_count entries, range-form names when
\* shard_max_keys is present and "0" .. shard_count-1 when it is absent, so an
\* index returned by keyspace_id_to_shard_index is an index into shard_names.
C8_ShardNamesLength ==
  Loaded =>
    /\ Len(ks.shard_names) = ks.shard_count
    /\ \A i \in 1..Len(ks.shard_names) :
         ks.shard_names[i] =
           IF ks.shard_max_keys.some
           THEN RangeName(IF i = 1 THEN MIN_KEY ELSE MaxKeys[i - 1], MaxKeys[i])
           ELSE PyStr(i - 1)
    /\ (Resolved /\ call.ret.exc = NoExc) =>
         call.ret.index + 1 \in DOMAIN ks.shard_names

C8_Witness ==
  /\ Loaded /\ ~ks.shard_max_keys.some /\ ks.shard_count = 2
  /\ ks.shard_names = << <<"0">>, <<"1">> >>

\* The snapshot's shard list, as fetched.
SnapshotShards == topo.data.Shards

\* C9 as stated: shard_max_keys is populated only if shard_count > 1 and the
\* last shard's range-end is non-empty.
C9_PopulatedOnlyIfLast_AsStated ==
  RangeSharded =>
    /\ ks.shard_count > 1
    /\ SnapshotShards[Len(SnapshotShards)].End # << >>

\* C9 amended: shard_max_keys is populated only if shard_count > 1 and the
\* first shard's range-end is non-empty; in every other case it is absent.
C9_PopulatedOnlyIfFirst ==
  RangeSharded =>
    /\ ks.shard_count > 1
    /\ SnapshotShards[1].End # << >>

C9_Witness ==
  /\ RangeSharded
  /\ SnapshotShards[1].End # << >>
  /\ SnapshotShards[Len(SnapshotShards)].End = << >>

====
